---- MODULE Spec2Model ----
(***************************************************************************)
(* Model of src/common/utils/match-route/build-trie.ts:                    *)
(*   PrefixTree (find/add), takeWhile, expandToken, buildTrie, matchRoute. *)
(*                                                                         *)
(* JavaScript strings are sequences of one-character strings, so that      *)
(* String.prototype.split is computed and not assumed.  A route is         *)
(* referenced from the trie by its index in the registered list (object    *)
(* identity).  A PrefixTree is flattened: the node reached from the root   *)
(* by the prefixes p1..pn is the entry <<p1,...,pn>> of the function       *)
(* `trie`; its `tail` field says whether a child PrefixTree hangs below.   *)
(* A null `value` is the empty sequence (the code never stores an empty    *)
(* list: a list is created holding one route and only grows).              *)
(***************************************************************************)
EXTENDS Integers, Sequences, FiniteSets, TLC

\* ------------------------------------------------------------------ bounds
MaxRoutes == 2      \* routes handed to buildTrie
MaxSegs == 2        \* segments of a request path

\* ------------------------------------------------------------- JS strings
Slash == "/"
Star == <<"*">>
\* String(undefined): the property key `prefixes[path[0]]` uses when path is []
Undefined == <<"u", "n", "d", "e", "f", "i", "n", "e", "d">>
SingleSegmentPattern == "[^\\/]+?"
\* a property name every object inherits from Object.prototype: `prefixes` is
\* a plain object ({}), so prefixes['constructor'] is never undefined
Constructor == <<"c", "o", "n", "s", "t", "r", "u", "c", "t", "o", "r">>
InheritedKeys == {Constructor}

Min(S) == CHOOSE x \in S : \A y \in S : x <= y

RECURSIVE SplitFrom(_, _, _, _)
SplitFrom(s, i, cur, out) ==
  IF i > Len(s) THEN Append(out, cur)
  ELSE IF s[i] = Slash THEN SplitFrom(s, i + 1, <<>>, Append(out, cur))
  ELSE SplitFrom(s, i + 1, Append(cur, s[i]), out)

\* s.split('/')
Split(s) == SplitFrom(s, 1, <<>>, <<>>)

\* arr.slice(1)
Slice1(arr) == IF Len(arr) = 0 THEN <<>> ELSE SubSeq(arr, 2, Len(arr))

RECURSIVE Flatten(_)
Flatten(ss) == IF ss = <<>> THEN <<>> ELSE Head(ss) \o Flatten(Tail(ss))

\* -------------------------------------------------- path templates, tokens
\* A route's path template is written as its lexemes.
LexA == "/a"
LexB == "/b"
LexParam == "/:x"
LexOptParam == "/:x?"
LexCustom == "/:n(a|c)"
LexBad == "/("

LexemeChars(l) ==
  CASE l = "/a" -> <<"/", "a">>
    [] l = "/b" -> <<"/", "b">>
    [] l = "/c" -> <<"/", "c">>
    [] l = "/constructor" -> <<"/">> \o Constructor
    [] l = "/" -> <<"/">>

LexRoot == "/"
IsLiteralLexeme(l) == l \in {LexA, LexB, LexRoot}

\* a Token is a string, or a key object { name, prefix, optional, pattern, ... }
StringToken(chars) ==
  [isString |-> TRUE, text |-> chars, pattern |-> "", optional |-> FALSE]
KeyToken(pattern, optional) ==
  [isString |-> FALSE, text |-> <<>>, pattern |-> pattern, optional |-> optional]

LexemePattern(l) == IF l \in {LexParam, LexOptParam} THEN SingleSegmentPattern ELSE "a|c"

\* path-to-regexp's parse: it throws on a malformed template
ParseThrows(path) == \E i \in 1..Len(path) : path[i] = LexBad

RECURSIVE ParseFrom(_, _, _)
ParseFrom(path, i, out) ==
  IF i > Len(path) THEN out
  ELSE IF IsLiteralLexeme(path[i])
    THEN IF out # <<>> /\ out[Len(out)].isString
           THEN ParseFrom(path, i + 1,
                  [out EXCEPT ![Len(out)].text = @ \o LexemeChars(path[i])])
           ELSE ParseFrom(path, i + 1, Append(out, StringToken(LexemeChars(path[i]))))
    ELSE ParseFrom(path, i + 1, Append(out, KeyToken(LexemePattern(path[i]), path[i] = LexOptParam)))

\* path-to-regexp's parse: adjacent literal text is one string token, a
\* parameter is a key token carrying its pattern
ParsePath(path) == ParseFrom(path, 1, <<>>)

\* ------------------------------------------------------- input universes
Route(path, exact) == [path |-> path, exact |-> exact]

\* The route table entries the model registers (example-routes.json shapes):
\* the root, a literal, a nested literal, single-segment parameters before
\* and after literals, an optional parameter, a parameter with a
\* custom pattern on its own and after other segments, and a template the
\* parser rejects.
RouteCatalog ==
  { Route(<<LexRoot>>, TRUE),
    Route(<<LexA>>, FALSE),
    Route(<<LexA, LexB>>, TRUE),
    Route(<<LexA, LexParam>>, TRUE),
    Route(<<LexParam, LexB>>, TRUE),
    Route(<<LexA, LexParam, LexCustom>>, TRUE),
    Route(<<LexCustom>>, FALSE),
    Route(<<LexOptParam>>, TRUE),
    Route(<<LexBad>>, TRUE) }

SeqsUpTo(S, n) == UNION { [1..k -> S] : k \in 0..n }

RouteLists == SeqsUpTo(RouteCatalog, MaxRoutes)

RequestLexemes == {"/a", "/b", "/c", "/constructor"}

RECURSIVE Concat(_)
Concat(ls) == IF ls = <<>> THEN <<>> ELSE LexemeChars(Head(ls)) \o Concat(Tail(ls))

\* request pathnames: the empty string, "/", and up to MaxSegs segments
Pathnames == {<<Slash>>} \cup { Concat(ls) : ls \in SeqsUpTo(RequestLexemes, MaxSegs) }

\* ---------------------------------------------------------------- helpers
\* takeWhile(arr, predicate), the predicate given as the set of the items
\* that satisfy it
takeWhile(arr, satisfying) ==
  LET stops == { k \in 1..Len(arr) : arr[k] \notin satisfying }
  IN IF stops = {} THEN arr ELSE SubSeq(arr, 1, Min(stops) - 1)

\* expandToken(token): a string token becomes one string per '/'-separated
\* piece after the first; a single-segment parameter becomes the string '*';
\* any other token is passed through
expandToken(token) ==
  IF token.isString
    THEN LET pieces == Slice1(Split(token.text))
         IN [k \in 1..Len(pieces) |-> StringToken(pieces[k])]
    ELSE IF token.pattern = SingleSegmentPattern
      THEN <<StringToken(Star)>>
      ELSE <<token>>

\* tokens.flatMap(expandToken)
ExpandedTokens(tokens) == Flatten([k \in 1..Len(tokens) |-> expandToken(tokens[k])])

\* mutant: the run stops at a single-segment parameter as well
IsLiteralToken(token) == token.isString /\ token.text # Star

IsStringToken(token) == token.isString

\* the stringPrefix buildTrie computes for one route
StringPrefix(route) ==
  LET expandedTokens == ExpandedTokens(ParsePath(route.path))
      run == takeWhile(expandedTokens,
                       { expandedTokens[k] : k \in { j \in 1..Len(expandedTokens) :
                                                       IsStringToken(expandedTokens[j]) } })
  IN [k \in 1..Len(run) |-> run[k].text]

\* ------------------------------------------------------------- PrefixTree
EmptyTrie == [p \in {} |-> [value |-> <<>>, tail |-> FALSE]]

EmptyNode == [value |-> <<>>, tail |-> FALSE]

\* prefixes[path[0]] with path = []: the key is String(undefined)
PrefixKey(path) == IF path = <<>> THEN Undefined ELSE path[1]

\* mutant: the route is put at the front of the node's list (unshift)
RECURSIVE PrefixTreeAddFront(_, _, _, _)
PrefixTreeAddFront(t, at, path, value) ==
  LET node == Append(at, PrefixKey(path))
      t1 == IF node \in DOMAIN t THEN t
            ELSE [p \in DOMAIN t \cup {node} |-> IF p = node THEN EmptyNode ELSE t[p]]
  IN IF Len(path) > 1
       THEN PrefixTreeAddFront([t1 EXCEPT ![node].tail = TRUE], node, Slice1(path), value)
       ELSE [t1 EXCEPT ![node].value = <<value>> \o @]

\* PrefixTree.add(path, value) on the tree that hangs below node `at`
RECURSIVE PrefixTreeAdd(_, _, _, _)
PrefixTreeAdd(t, at, path, value) ==
  LET node == Append(at, PrefixKey(path))
      t1 == IF node \in DOMAIN t THEN t
            ELSE [p \in DOMAIN t \cup {node} |-> IF p = node THEN EmptyNode ELSE t[p]]
  IN IF Len(path) > 1
       THEN PrefixTreeAdd([t1 EXCEPT ![node].tail = TRUE], node, Slice1(path), value)
       ELSE [t1 EXCEPT ![node].value = Append(@, value)]

\* PrefixTree.find(path) on the tree that hangs below node `at`
\* (<<>> stands for null)
RECURSIVE PrefixTreeFind(_, _, _)
PrefixTreeFind(t, at, path) ==
  IF Len(path) = 0 THEN <<>>
  ELSE LET node == Append(at, path[1])
       IN IF node \notin DOMAIN t THEN <<>>
          ELSE IF Len(path) > 1
            THEN IF t[node].tail THEN PrefixTreeFind(t, node, Slice1(path)) ELSE <<>>
            ELSE t[node].value

\* ------------------------------------------------ the external matcher
\* pathname.split('/').filter(s => s)
SplitPath(p) == SelectSeq(Split(p), LAMBDA seg : seg # <<>>)

\* the segment sequences a template stands for: one segment per lexeme, the
\* root "/" none, an optional parameter one or none
TemplateVariants(path) ==
  LET optional == { k \in 1..Len(path) : path[k] = LexOptParam }
      Keep(drop) == { k \in 1..Len(path) : path[k] # LexRoot /\ k \notin drop }
      Pick(drop) == SelectSeq([k \in 1..Len(path) |-> IF k \in Keep(drop) THEN path[k] ELSE LexRoot],
                              LAMBDA l : l # LexRoot)
  IN { Pick(drop) : drop \in SUBSET optional }

SegmentMatches(l, seg) ==
  CASE l = LexA -> seg = <<"a">>
    [] l = LexB -> seg = <<"b">>
    [] l \in {LexParam, LexOptParam} -> TRUE
    [] l = LexCustom -> seg \in {<<"a">>, <<"c">>}
    [] OTHER -> FALSE

VariantAccepts(want, exact, segs) ==
  /\ Len(want) <= Len(segs)
  /\ exact => Len(want) = Len(segs)
  /\ \A k \in 1..Len(want) : SegmentMatches(want[k], segs[k])

\* whether execRouteMatching accepts route for pathname (end: route.exact,
\* strict: false)
Accepts(route, p) ==
  \E want \in TemplateVariants(route.path) : VariantAccepts(want, route.exact, SplitPath(p))

NullResult == [isNull |-> TRUE, route |-> 0, match |-> <<>>]

\* execRouteMatching(pattern, pathname, queryParams, basePath): { route, match }
\* or null; the match carries the bound parameter values
execRouteMatching(rs, r, p) ==
  IF Accepts(rs[r], p)
    THEN LET fits == { w \in TemplateVariants(rs[r].path) :
                         VariantAccepts(w, rs[r].exact, SplitPath(p)) }
             want == CHOOSE w \in fits : \A v \in fits : Len(v) <= Len(w)
             bound == { k \in 1..Len(want) : want[k] \in {LexParam, LexOptParam, LexCustom} }
         IN [isNull |-> FALSE, route |-> r,
             match |-> [k \in bound |-> SplitPath(p)[k]]]
    ELSE NullResult

\* ------------------------------------------------------------------ state
VARIABLES
  routes,         \* the InvariantRoute[] handed to buildTrie
  bpc,            \* buildTrie: "building", "built" (returned), "threw"
  bi,             \* index of the route the forEach handles next
  trie,           \* the PrefixTree under construction / routeTrie
  mpc,            \* matchRoute: "idle", "descend", "evaluate", "returned"
  trieArg,        \* matchRoute's trie argument: "trie" or "null"
  pathname,       \* matchRoute's pathname argument
  splitPath,      \* local splitPath
  currentPrefix,  \* local currentPrefix
  currentTrie,    \* local currentTrie: null, or the node its tree hangs below
  patterns,       \* local patterns
  i,              \* loop index of the evaluation loop (1-based)
  result,         \* what matchRoute returned
  executed        \* history: the routes passed to execRouteMatching, in order

vars == <<routes, bpc, bi, trie, mpc, trieArg, pathname, splitPath,
          currentPrefix, currentTrie, patterns, i, result, executed>>

buildVars == <<routes, bpc, bi, trie>>
matchVars == <<mpc, trieArg, pathname, splitPath, currentPrefix, currentTrie,
               patterns, i, result, executed>>

NullTrie == [isNull |-> TRUE, at |-> <<>>]
TreeBelow(at) == [isNull |-> FALSE, at |-> at]

Init ==
  /\ routes \in RouteLists
  /\ bpc = "building"
  /\ bi = 1
  /\ trie = EmptyTrie
  /\ mpc = "idle"
  /\ trieArg = "trie"
  /\ pathname = <<>>
  /\ splitPath = <<>>
  /\ currentPrefix = 0
  /\ currentTrie = NullTrie
  /\ patterns = <<>>
  /\ i = 0
  /\ result = NullResult
  /\ executed = <<>>

\* ---------------------------------------------------------------- buildTrie
\* one iteration of routes.forEach: parse, expand, takeWhile, trie.add
BuildRoute ==
  /\ bpc = "building"
  /\ bi <= Len(routes)
  /\ ~ParseThrows(routes[bi].path)
  /\ trie' = PrefixTreeAdd(trie, <<>>, StringPrefix(routes[bi]), bi)
  /\ bi' = bi + 1
  /\ UNCHANGED <<routes, bpc>>
  /\ UNCHANGED matchVars

\* parsePath throws inside the forEach callback: nothing catches it
BuildThrow ==
  /\ bpc = "building"
  /\ bi <= Len(routes)
  /\ ParseThrows(routes[bi].path)
  /\ bpc' = "threw"
  /\ UNCHANGED <<routes, bi, trie>>
  /\ UNCHANGED matchVars

\* return trie
BuildReturn ==
  /\ bpc = "building"
  /\ bi > Len(routes)
  /\ bpc' = "built"
  /\ UNCHANGED <<routes, bi, trie>>
  /\ UNCHANGED matchVars

\* --------------------------------------------------------------- matchRoute
\* what a lookup in `prefixes` yields: a trie node, an object inherited from
\* Object.prototype (truthy, with no value and no tail), or undefined
TrieNode(path) == [kind |-> "node", path |-> path]
InheritedObject == [kind |-> "inherited", path |-> <<>>]
NoNode == [kind |-> "undefined", path |-> <<>>]

\* currentTrie.prefixes[key]
Lookup(t, at, key) ==
  IF Append(at, key) \in DOMAIN t THEN TrieNode(Append(at, key))
  ELSE IF key \in InheritedKeys THEN InheritedObject
  ELSE NoNode

\* mutant: prefixes['*'] || prefixes[prefix]
DescentNodeWildcardFirst(t, at, prefix) ==
  IF Lookup(t, at, Star) # NoNode THEN Lookup(t, at, Star) ELSE Lookup(t, at, prefix)

\* mutant: prefixes[prefix], no fallback
DescentNodeLiteralOnly(t, at, prefix) == Lookup(t, at, prefix)

\* the node the descent moves to: prefixes[prefix] || prefixes['*']
DescentNode(t, at, prefix) ==
  IF Lookup(t, at, prefix) # NoNode THEN Lookup(t, at, prefix) ELSE Lookup(t, at, Star)

\* node?.value (<<>> when falsy) and node?.tail
NodeValue(t, node) == IF node.kind = "node" THEN t[node.path].value ELSE <<>>
NodeHasTail(t, node) == node.kind = "node" /\ t[node.path].tail

\* the call: split the pathname, initialise the locals
MatchCall(p, arg) ==
  /\ bpc = "built"
  /\ mpc = "idle"
  /\ mpc' = "descend"
  /\ trieArg' = arg
  /\ pathname' = p
  /\ splitPath' = SplitPath(p)
  /\ currentPrefix' = 0
  /\ currentTrie' = IF arg = "null" THEN NullTrie ELSE TreeBelow(<<>>)
  /\ patterns' = <<>>
  /\ i' = 0
  /\ result' = NullResult
  /\ executed' = <<>>
  /\ UNCHANGED buildVars

\* mutant: a wildcard hit is memoised in the trie under the literal key
DescendCaching ==
  /\ mpc = "descend"
  /\ ~currentTrie.isNull /\ currentPrefix < Len(splitPath)
  /\ LET prefix == splitPath[currentPrefix + 1]
         literal == Append(currentTrie.at, prefix)
         node == DescentNode(trie, currentTrie.at, prefix)
     IN /\ patterns' = patterns \o NodeValue(trie, node)
        /\ currentTrie' = IF NodeHasTail(trie, node) THEN TreeBelow(node.path)
                          ELSE NullTrie
        /\ trie' = IF node.kind = "node" /\ node.path # literal
                     THEN [p \in DOMAIN trie \cup {literal} |->
                             IF p = literal THEN [trie[node.path] EXCEPT !.tail = FALSE]
                             ELSE trie[p]]
                     ELSE trie
  /\ currentPrefix' = currentPrefix + 1
  /\ UNCHANGED <<mpc, trieArg, pathname, splitPath, i, result, executed>>
  /\ UNCHANGED <<routes, bpc, bi>>

\* one iteration of the while loop
Descend ==
  /\ mpc = "descend"
  /\ ~currentTrie.isNull /\ currentPrefix < Len(splitPath)
  /\ LET prefix == splitPath[currentPrefix + 1]
         node == DescentNode(trie, currentTrie.at, prefix)
     IN /\ patterns' = patterns \o NodeValue(trie, node)
        /\ currentTrie' = IF NodeHasTail(trie, node) THEN TreeBelow(node.path)
                          ELSE NullTrie
  /\ currentPrefix' = currentPrefix + 1
  /\ UNCHANGED <<mpc, trieArg, pathname, splitPath, i, result, executed>>
  /\ UNCHANGED buildVars

\* mutant: the candidates are dropped when the path was not consumed
DescendExitFullPathOnly ==
  /\ mpc = "descend"
  /\ ~(~currentTrie.isNull /\ currentPrefix < Len(splitPath))
  /\ mpc' = "evaluate"
  /\ patterns' = IF currentPrefix < Len(splitPath) THEN <<>> ELSE patterns
  /\ i' = Len(patterns')
  /\ UNCHANGED <<trieArg, pathname, splitPath, currentPrefix, currentTrie,
                 result, executed>>
  /\ UNCHANGED buildVars

\* the while condition fails: enter the for loop with i = patterns.length - 1
DescendExit ==
  /\ mpc = "descend"
  /\ ~(~currentTrie.isNull /\ currentPrefix < Len(splitPath))
  /\ mpc' = "evaluate"
  /\ i' = Len(patterns)
  /\ UNCHANGED <<trieArg, pathname, splitPath, currentPrefix, currentTrie,
                 patterns, result, executed>>
  /\ UNCHANGED buildVars

\* one iteration of the for loop whose execRouteMatching succeeds: return it
EvaluateHit ==
  /\ mpc = "evaluate"
  /\ i >= 1
  /\ LET match == execRouteMatching(routes, patterns[i], pathname)
     IN /\ ~match.isNull
        /\ result' = match
  /\ executed' = Append(executed, patterns[i])
  /\ mpc' = "returned"
  /\ UNCHANGED <<trieArg, pathname, splitPath, currentPrefix, currentTrie,
                 patterns, i>>
  /\ UNCHANGED buildVars

\* one iteration of the for loop whose execRouteMatching fails: i--
EvaluateMiss ==
  /\ mpc = "evaluate"
  /\ i >= 1
  /\ execRouteMatching(routes, patterns[i], pathname).isNull
  /\ executed' = Append(executed, patterns[i])
  /\ i' = i - 1
  /\ UNCHANGED <<mpc, trieArg, pathname, splitPath, currentPrefix, currentTrie,
                 patterns, result>>
  /\ UNCHANGED buildVars

\* mutant: the loop falls back to the first candidate instead of null
ReturnFirstCandidate ==
  /\ mpc = "evaluate"
  /\ i < 1
  /\ result' = IF patterns = <<>> THEN NullResult
               ELSE [isNull |-> FALSE, route |-> patterns[1], match |-> <<>>]
  /\ mpc' = "returned"
  /\ UNCHANGED <<trieArg, pathname, splitPath, currentPrefix, currentTrie,
                 patterns, i, executed>>
  /\ UNCHANGED buildVars

\* the for loop ends: return null
ReturnNull ==
  /\ mpc = "evaluate"
  /\ i < 1
  /\ result' = NullResult
  /\ mpc' = "returned"
  /\ UNCHANGED <<trieArg, pathname, splitPath, currentPrefix, currentTrie,
                 patterns, i, executed>>
  /\ UNCHANGED buildVars

\* the caller has taken the result; the call's locals are gone
MatchDone ==
  /\ mpc = "returned"
  /\ mpc' = "idle"
  /\ trieArg' = "trie"
  /\ pathname' = <<>>
  /\ splitPath' = <<>>
  /\ currentPrefix' = 0
  /\ currentTrie' = NullTrie
  /\ patterns' = <<>>
  /\ i' = 0
  /\ result' = NullResult
  /\ executed' = <<>>
  /\ UNCHANGED buildVars

Next ==
  \/ BuildRoute
  \/ BuildThrow
  \/ BuildReturn
  \/ \E p \in Pathnames, arg \in {"trie", "null"} : MatchCall(p, arg)
  \/ Descend
  \/ DescendExit
  \/ EvaluateHit
  \/ EvaluateMiss
  \/ ReturnNull
  \/ MatchDone

Spec == Init /\ [][Next]_vars

\* =================================================================== claims
\* Reference notions, computed from the registered templates and not from
\* the trie.

RouteIds == 1..Len(routes)
Inserted == 1..(bi - 1)

\* one trie key per lexeme, as the template reads: a literal segment's text,
\* '*' for a single-segment parameter (optional or not), "" for the root "/"
LexemeKey(l) ==
  CASE l = LexA -> <<"a">>
    [] l = LexB -> <<"b">>
    [] l = LexRoot -> <<>>
    [] l \in {LexParam, LexOptParam} -> Star

\* the leading lexemes that are literals or single-segment parameters
RECURSIVE KeyRun(_)
KeyRun(path) ==
  IF path = <<>> \/ Head(path) \in {LexCustom, LexBad} THEN <<>>
  ELSE <<LexemeKey(Head(path))>> \o KeyRun(Tail(path))

\* the leading lexemes that are literals
RECURSIVE LiteralRun(_)
LiteralRun(path) ==
  IF path = <<>> \/ Head(path) \notin {LexA, LexB, LexRoot} THEN <<>>
  ELSE <<LexemeKey(Head(path))>> \o LiteralRun(Tail(path))

\* the nodes whose route list holds route r, with multiplicity
Holders(t, r) == { n \in DOMAIN t : \E k \in 1..Len(t[n].value) : t[n].value[k] = r }
Occurrences(t, r) ==
  UNION { { <<n, k>> : k \in { j \in 1..Len(t[n].value) : t[n].value[j] = r } } :
          n \in DOMAIN t }

C6_BadTemplateConfined ==
  ( /\ bpc # "building"
    /\ \E r \in RouteIds : ParseThrows(routes[r].path)
    /\ \E r \in RouteIds : ~ParseThrows(routes[r].path) ) =>
    /\ bpc = "built"
    /\ \A r \in RouteIds : ~ParseThrows(routes[r].path) => Holders(trie, r) # {}

\* ------------------------------------------------- matching: reference
Returned == mpc = "returned" /\ trieArg = "trie"

\* the node a route's template puts it at
NodePath(route) ==
  IF KeyRun(route.path) = <<>> THEN <<Undefined>> ELSE KeyRun(route.path)

IsPrefix(a, b) == Len(a) <= Len(b) /\ SubSeq(b, 1, Len(a)) = a

\* the edges a request follows through the registered templates: at each
\* depth the request segment if some template continues with it, otherwise
\* '*' if some template continues with a single-segment parameter; a segment
\* naming an inherited property has a (useless) edge of its own everywhere
RECURSIVE TakenPath(_, _, _)
TakenPath(rs, segs, at) ==
  IF Len(at) = Len(segs) THEN at
  ELSE LET seg == segs[Len(at) + 1]
           Continues(k) == \E r \in 1..Len(rs) : IsPrefix(Append(at, k), NodePath(rs[r]))
       IN IF Continues(seg) THEN TakenPath(rs, segs, Append(at, seg))
          ELSE IF seg \in InheritedKeys THEN at
          ELSE IF Continues(Star) THEN TakenPath(rs, segs, Append(at, Star))
          ELSE at

\* the routes stored on the path the request follows
OnTakenPath(rs, p) ==
  { r \in 1..Len(rs) : IsPrefix(NodePath(rs[r]), TakenPath(rs, SplitPath(p), <<>>)) }

AcceptedOnPath(rs, p) == { r \in OnTakenPath(rs, p) : Accepts(rs[r], p) }

ResultFor(rs, winners, p) ==
  IF winners = {} THEN NullResult
  ELSE execRouteMatching(rs, CHOOSE r \in winners : TRUE, p)

\* among the accepted routes, the later-registered one
LatestOf(S) == { r \in S : \A q \in S : q <= r }

\* among the accepted routes, the one stored deepest, and the
\* later-registered one among those stored at the same node
DeepestLatestOf(rs, S) ==
  { r \in S : \A q \in S :
      \/ Len(NodePath(rs[q])) < Len(NodePath(rs[r]))
      \/ Len(NodePath(rs[q])) = Len(NodePath(rs[r])) /\ q <= r }

C2_MovedTo(n) ==
  /\ patterns' = patterns \o trie[n].value
  /\ currentTrie' = IF trie[n].tail THEN TreeBelow(n) ELSE NullTrie

\* the edge one Descend step takes
C2_EdgeTaken ==
  (mpc = "descend" /\ currentPrefix' = currentPrefix + 1) =>
    LET literal == Append(currentTrie.at, splitPath[currentPrefix + 1])
        wildcard == Append(currentTrie.at, Star)
        halted == patterns' = patterns /\ currentTrie' = NullTrie
    IN /\ literal \in DOMAIN trie => C2_MovedTo(literal)
       /\ literal \notin DOMAIN trie =>
            \/ wildcard \in DOMAIN trie /\ C2_MovedTo(wildcard)
            \/ halted

\* the routes /a/:x and /a/b, the requests /a/b and /a/c
C2_Example ==
  ( /\ Returned
    /\ \E r \in RouteIds : routes[r] = Route(<<LexA, LexParam>>, TRUE)
    /\ \E r \in RouteIds : routes[r] = Route(<<LexA, LexB>>, TRUE) ) =>
    /\ pathname = <<"/", "a", "/", "b">> =>
         ~result.isNull /\ routes[result.route].path = <<LexA, LexB>>
    /\ pathname = <<"/", "a", "/", "c">> =>
         ~result.isNull /\ routes[result.route].path = <<LexA, LexParam>>

\* C2: at every node the descent takes the edge keyed by the request segment
\* whenever that edge exists, and the '*' edge only when it does not; so with
\* /a/:x and /a/b registered, in either order, /a/b resolves to /a/b and /a/c
\* resolves to /a/:x.
C2_LiteralEdgePreferred == [][C2_EdgeTaken]_vars /\ []C2_Example

C2_Witness ==
  /\ Returned
  /\ routes = <<Route(<<LexA, LexParam>>, TRUE), Route(<<LexA, LexB>>, TRUE)>>
  /\ pathname = <<"/", "a", "/", "c">>
  /\ ~result.isNull /\ routes[result.route].path = <<LexA, LexParam>>

\* C3: the candidates are passed to the external matcher in exactly the
\* reverse of collection order and the first one accepted is returned: a
\* route collected at a deeper node is tried before one collected at a
\* shallower node, among the routes of one node (a list in registration
\* order) a later-registered one is tried first, and nothing is tried or
\* returned after the first acceptance.
C3_ReverseOrder ==
  /\ \A n \in DOMAIN trie : \A j, k \in 1..Len(trie[n].value) :
       j < k => trie[n].value[j] < trie[n].value[k]
  /\ mpc \in {"evaluate", "returned"} =>
       /\ Len(executed) <= Len(patterns)
       /\ \A k \in 1..Len(executed) : executed[k] = patterns[Len(patterns) + 1 - k]
       /\ \A j, k \in 1..Len(executed) : j < k =>
            \/ Len(NodePath(routes[executed[j]])) > Len(NodePath(routes[executed[k]]))
            \/ /\ NodePath(routes[executed[j]]) = NodePath(routes[executed[k]])
               /\ executed[j] > executed[k]
       /\ \A k \in 1..(Len(executed) - 1) : ~Accepts(routes[executed[k]], pathname)
       /\ mpc = "evaluate" => \A k \in 1..Len(executed) : ~Accepts(routes[executed[k]], pathname)
       /\ mpc = "returned" =>
            IF result.isNull
              THEN /\ Len(executed) = Len(patterns)
                   /\ \A k \in 1..Len(executed) : ~Accepts(routes[executed[k]], pathname)
              ELSE /\ executed # <<>>
                   /\ result.route = executed[Len(executed)]
                   /\ Accepts(routes[result.route], pathname)

C3_Witness ==
  /\ Returned
  /\ Len(patterns) = 2
  /\ executed = <<patterns[2], patterns[1]>>
  /\ Len(NodePath(routes[executed[1]])) > Len(NodePath(routes[executed[2]]))
  /\ executed[1] < executed[2]
  /\ result.route = executed[2]

\* every step of a call advances it
C4_Step ==
  /\ mpc = "descend" =>
       /\ mpc' \in {"descend", "evaluate"}
       /\ mpc' = "descend" => currentPrefix' = currentPrefix + 1 /\ currentPrefix' <= Len(splitPath)
  /\ mpc = "evaluate" =>
       /\ mpc' \in {"evaluate", "returned"}
       /\ mpc' = "evaluate" => i' = i - 1 /\ i' >= 0

\* a call is never stuck, and what it returns
C4_State ==
  /\ mpc \in {"descend", "evaluate"} =>
       ENABLED (Descend \/ DescendExit \/ EvaluateHit \/ EvaluateMiss \/ ReturnNull)
  /\ mpc = "returned" =>
       /\ (\A r \in RouteIds : ~Accepts(routes[r], pathname)) => result = NullResult
       /\ \/ result = NullResult
          \/ /\ ~result.isNull
             /\ result.route \in RouteIds
             /\ result = execRouteMatching(routes, result.route, pathname)

\* C4: no-match is a total outcome: on every trie buildTrie returns (the one
\* of the empty route set included) a call for a path no registered route
\* accepts runs to its return, step by step without getting stuck, and
\* returns null; a result is never partially populated.
C4_NoMatchIsTotal == [][C4_Step]_vars /\ []C4_State

C4_Witness ==
  /\ Returned
  /\ routes # <<>>
  /\ patterns # <<>>
  /\ \A r \in RouteIds : ~Accepts(routes[r], pathname)
  /\ result = NullResult

\* C7: matchRoute called with a null trie fails loudly; it never returns the
\* no-match value null.
C7_NullTrieFailsLoudly ==
  ~(mpc = "returned" /\ trieArg = "null" /\ result = NullResult)

\* a whole call as a function of the trie and the pathname
RECURSIVE CollectAlone(_, _, _, _, _)
CollectAlone(t, segs, k, at, acc) ==
  IF k > Len(segs) THEN acc
  ELSE LET node == DescentNode(t, at, segs[k])
       IN IF NodeHasTail(t, node)
            THEN CollectAlone(t, segs, k + 1, node.path, acc \o NodeValue(t, node))
            ELSE acc \o NodeValue(t, node)

RECURSIVE FirstAccepted(_, _, _, _)
FirstAccepted(rs, cands, k, p) ==
  IF k = 0 THEN NullResult
  ELSE IF ~execRouteMatching(rs, cands[k], p).isNull THEN execRouteMatching(rs, cands[k], p)
  ELSE FirstAccepted(rs, cands, k - 1, p)

MatchAlone(t, rs, p) ==
  LET cands == CollectAlone(t, SplitPath(p), 1, <<>>, <<>>)
  IN FirstAccepted(rs, cands, Len(cands), p)

\* the trie of a whole buildTrie call
RECURSIVE BuiltFrom(_, _, _)
BuiltFrom(rs, k, t) ==
  IF k > Len(rs) THEN t
  ELSE BuiltFrom(rs, k + 1, PrefixTreeAdd(t, <<>>, StringPrefix(rs[k]), k))

\* once buildTrie has returned, no step writes the trie or the routes
C8_TrieKept == bpc = "built" => trie' = trie /\ routes' = routes /\ bpc' = bpc

\* the trie is the built one and the result is that of the call run alone
C8_ResultAlone ==
  /\ bpc = "built" => trie = BuiltFrom(routes, 1, EmptyTrie)
  /\ Returned => result = MatchAlone(BuiltFrom(routes, 1, EmptyTrie), routes, pathname)

Range(f) == { f[k] : k \in DOMAIN f }

\* route r is a candidate, evaluated unless an earlier candidate succeeded
C9_Evaluated(r) ==
  /\ r \in Range(patterns)
  /\ mpc = "returned" => r \in Range(executed) \/ ~result.isNull

C10_Eligible(r) ==
  LET k == KeyRun(routes[r].path) IN k = <<>> \/ k[1] = Star

\* C10: for a request path with zero segments ('' or '/') a route whose
\* prefix key is empty, or whose first token is the wildcard key at the root,
\* is returned when the external matcher accepts it, and no route with a
\* non-empty literal prefix is returned.
C10_RootRequest ==
  (Returned /\ splitPath = <<>>) =>
    /\ (\E r \in RouteIds : C10_Eligible(r) /\ Accepts(routes[r], pathname)) =>
         ~result.isNull /\ C10_Eligible(result.route)
    /\ ~result.isNull => C10_Eligible(result.route)

====
